---- MODULE Spec2Model ----
(***************************************************************************)
(* Table search (linear, bisection, hunt), the linear Interpolator built   *)
(* on it, and the Neville PolynomialInterpolator of docs/06/notes.ipynb.   *)
(*                                                                         *)
(* Python sequences are 0-based: At(s, i) reads s[i] for 0 <= i < len(s).  *)
(* Table entries, sample values and targets are reals in the notebook; the *)
(* model draws them from small integer ranges and computes the Neville     *)
(* corrections in exact rational arithmetic.                               *)
(***************************************************************************)
EXTENDS Integers, Sequences, FiniteSets, TLC

VARIABLES
    xs, ys,      \* the sample table
    target,      \* the target of the current (or last) call
    hint, out,   \* search driver: the hint given to hunt, the indices returned
    i_last,      \* Interpolator.i_last
    ret,         \* what the last Interpolator / PolynomialInterpolator call produced
    order, dy,   \* PolynomialInterpolator.n and .dy
    pc,          \* position of the running PolynomialInterpolator call
    C, D,        \* its correction arrays
    ptr, y, ord, \* its locals i, y and the loop variable n
    path         \* the corrections the call has added to y, one entry per order

vars ==
    <<xs, ys, target, hint, out, i_last, ret, order, dy, pc, C, D, ptr, y, ord,
      path>>

searchVars == <<hint, out>>
interpVars == <<i_last>>
polyVars == <<order, dy, pc, C, D, ptr, y, ord, path>>

(***************************************************************************)
(* Bounds of the model.                                                    *)
(***************************************************************************)
MaxM == 6        \* longest sorted table searched
UnsortedM == 3   \* longest unsorted table searched
MaxX == 5        \* searched abscissas are drawn from 0..MaxX
PolyMaxM == 4    \* longest table given to an interpolator
PolyMaxX == 3    \* its abscissas are drawn from 0..PolyMaxX
MaxY == 1        \* sample values are drawn from 0..MaxY
BuildM == 3      \* longest array handed to a constructor in any order

Abscissas == 0..MaxX
Targets == -1..(MaxX + 1)
PolyAbscissas == 0..PolyMaxX
PolyTargets == -1..(PolyMaxX + 1)

(***************************************************************************)
(* Python values: an int, None, or the exception that ended the call.      *)
(***************************************************************************)
PyInt(k) == [tag |-> "int", v |-> k]
None == [tag |-> "None"]
AssertionError == [tag |-> "AssertionError"]
TypeError == [tag |-> "TypeError"]
IndexError == [tag |-> "IndexError"]
ValueError == [tag |-> "ValueError"]
ZeroDivisionError == [tag |-> "ZeroDivisionError"]
NotCalled == [tag |-> "NotCalled"]

IsInt(r) == r.tag = "int"

At(s, i) == s[i + 1]

Min(a, b) == IF a < b THEN a ELSE b
Max(a, b) == IF a > b THEN a ELSE b

\* xs[l:h+1] for 0 <= l <= h < len(xs)
Slice(s, l, h) == SubSeq(s, l + 1, h + 1)

StrictlyIncreasing(s) == \A k \in 1..(Len(s) - 1) : s[k] < s[k + 1]
NonDecreasing(s) == \A k \in 1..(Len(s) - 1) : s[k] <= s[k + 1]

\* the tables searched: sorted ones (np.sort), and short ones in any order
TablesOfLen(m) == [1..m -> Abscissas]
Tables ==
    UNION ({{s \in TablesOfLen(m) : NonDecreasing(s)} : m \in 2..MaxM}
               \cup {TablesOfLen(m) : m \in 2..UnsortedM})

(***************************************************************************)
(* linear: the first l with xs[l] >= target gives l-1; a loop that runs    *)
(* off the end of the table returns None.                                  *)
(***************************************************************************)
RECURSIVE linearFrom(_, _, _)
linearFrom(s, t, l) ==
    IF l >= Len(s) THEN None
    ELSE IF At(s, l) >= t THEN PyInt(l - 1)
    ELSE linearFrom(s, t, l + 1)

linear(s, t) == linearFrom(s, t, 0)

(***************************************************************************)
(* bisection: l, h = 0, len-1; halve while h - l > 1; return l.            *)
(***************************************************************************)
\* the halving loop with the comparison made strict
RECURSIVE bisectionLoopStrict(_, _, _, _)
bisectionLoopStrict(s, t, l, h) ==
    IF h - l > 1
    THEN LET m == (h + l) \div 2
         IN  IF t > At(s, m) THEN bisectionLoopStrict(s, t, m, h)
                             ELSE bisectionLoopStrict(s, t, l, m)
    ELSE l

RECURSIVE bisectionLoop(_, _, _, _)
bisectionLoop(s, t, l, h) ==
    IF h - l > 1
    THEN LET m == (h + l) \div 2
         IN  IF t >= At(s, m) THEN bisectionLoop(s, t, m, h)
                              ELSE bisectionLoop(s, t, l, m)
    ELSE l

\* bisection with h started one past the last index
bisectionHiLen(s, t) == bisectionLoop(s, t, 0, Len(s))

bisection(s, t) == bisectionLoop(s, t, 0, Len(s) - 1)

(***************************************************************************)
(* hunt: expand a window from i_last in steps 1, 2, 4, ... then bisect the *)
(* slice xs[l:h+1].  The two loops return the window <<l, h>>.             *)
(***************************************************************************)
RECURSIVE huntUp(_, _, _, _, _)
huntUp(s, t, l, h, step) ==
    IF h < Len(s) - 1 /\ t > At(s, h)
    THEN huntUp(s, t, h, Min(Len(s) - 1, h + step), step * 2)
    ELSE <<l, h>>

RECURSIVE huntDown(_, _, _, _, _)
huntDown(s, t, l, h, step) ==
    IF l > 0 /\ t < At(s, l)
    THEN huntDown(s, t, Max(0, l - step), l, step * 2)
    ELSE <<l, h>>

huntWindow(s, t, i) ==
    IF t >= At(s, i)
    THEN huntUp(s, t, i, Min(Len(s) - 1, i + 1), 1)
    ELSE huntDown(s, t, Max(0, i - 1), i, 1)

\* the refinement offset taken from the upper end of the window
huntRefineFromHigh(s, t, w) == bisection(Slice(s, w[1], w[2]), t) + w[2]

huntRefine(s, t, w) == bisection(Slice(s, w[1], w[2]), t) + w[1]

hunt(s, t, i) ==
    IF ~(0 <= i /\ i < Len(s) - 1) THEN AssertionError
    ELSE PyInt(huntRefine(s, t, huntWindow(s, t, i)))

(***************************************************************************)
(* Search driver: the three strategies are called on one table and target, *)
(* hunt from a hint; a later hunt is seeded with the index hunt returned.  *)
(***************************************************************************)
NoResults == [linear |-> NotCalled, bisection |-> NotCalled, hunt |-> NotCalled]

InitSearch ==
    /\ xs \in Tables
    /\ ys = <<>>
    /\ target \in Targets
    /\ hint \in 0..(Len(xs) - 2)
    /\ out = NoResults
    /\ i_last = NotCalled
    /\ ret = NotCalled
    /\ order = 0 /\ dy = NotCalled /\ pc = "idle"
    /\ C = <<>> /\ D = <<>> /\ ptr = 0 /\ y = NotCalled /\ ord = 0
    /\ path = <<>>

CallLinear ==
    /\ out.linear = NotCalled
    /\ out' = [out EXCEPT !.linear = linear(xs, target)]
    /\ UNCHANGED <<xs, ys, target, hint, i_last, ret, polyVars>>

CallBisection ==
    /\ out.bisection = NotCalled
    /\ out' = [out EXCEPT !.bisection = PyInt(bisection(xs, target))]
    /\ UNCHANGED <<xs, ys, target, hint, i_last, ret, polyVars>>

CallHunt ==
    /\ out.hunt = NotCalled
    /\ out' = [out EXCEPT !.hunt = hunt(xs, target, hint)]
    /\ UNCHANGED <<xs, ys, target, hint, i_last, ret, polyVars>>

\* the tables np.sort(np.random.uniform(...)) draws, by length: the samples
\* are distinct, so the sorted table is strictly increasing
Ascending(S) ==
    [k \in 1..Cardinality(S) |->
        CHOOSE x \in S : Cardinality({z \in S : z < x}) = k - 1]
DrawnTables(m) ==
    {Ascending(S) : S \in {T \in SUBSET Abscissas : Cardinality(T) = m}}

\* the next pass of the hunt loop over a table drawn by the pass before:
\* xs = np.sort(...) draws a new table of the same length, v is drawn between
\* its first and last entries, and i = hunt(xs, v, i) is seeded with the
\* index the hunt before returned
NextSearch ==
    /\ IsInt(out.hunt)
    /\ StrictlyIncreasing(xs)
    /\ hint' = out.hunt.v
    /\ xs' \in DrawnTables(Len(xs))
    /\ target' \in At(xs', 0)..At(xs', Len(xs) - 1)
    /\ out' = NoResults
    /\ UNCHANGED <<ys, i_last, ret, polyVars>>

NextS == CallLinear \/ CallBisection \/ CallHunt \/ NextSearch

SpecSearch == InitSearch /\ [][NextS]_vars

(***************************************************************************)
(* Properties of the three search strategies.                              *)
(***************************************************************************)
M == Len(xs)

\* xs[0] <= target < xs[M-1]
InTable == At(xs, 0) <= target /\ target < At(xs, M - 1)

\* i is the bracket of t: 0 <= i <= M-2 and xs[i] <= t < xs[i+1]
Bracket(s, t, i) ==
    /\ i \in 0..(Len(s) - 2)
    /\ At(s, i) <= t
    /\ t < At(s, i + 1)

AllCalled ==
    /\ out.linear # NotCalled
    /\ out.bisection # NotCalled
    /\ out.hunt # NotCalled

\* C1: on a strictly increasing table and a target with
\* xs[0] <= target < xs[M-1] (table entries included), linear, bisection and
\* hunt from any valid hint return the identical bracket index.
C1_StrategiesAgree ==
    (StrictlyIncreasing(xs) /\ InTable /\ AllCalled)
        => (out.linear = out.bisection /\ out.hunt = out.bisection)

\* C2: on a strictly increasing table and a target with
\* xs[0] <= target < xs[M-1], bisection returns an index i in [0, M-2] with
\* xs[i] <= target < xs[i+1].
C2_BisectionBrackets ==
    (StrictlyIncreasing(xs) /\ InTable /\ out.bisection # NotCalled)
        => Bracket(xs, target, out.bisection.v)

\* bisection has halved at least twice and landed on a table entry
C2_Witness ==
    /\ StrictlyIncreasing(xs) /\ InTable
    /\ M = MaxM
    /\ out.bisection = PyInt(2)
    /\ target = At(xs, 2)

\* C3: on a strictly increasing table, from every hint in [0, M-2] and for
\* every target with xs[0] <= target < xs[M-1], hunt returns an index i with
\* xs[i] <= target < xs[i+1], also when the target is a table entry above the
\* hint.
C3_HuntBrackets ==
    (StrictlyIncreasing(xs) /\ InTable /\ out.hunt # NotCalled)
        => (IsInt(out.hunt) /\ Bracket(xs, target, out.hunt.v))

\* the largest index i with s[i] <= t, for t >= s[0]
LargestBelow(s, t) ==
    CHOOSE i \in 0..(Len(s) - 1) :
        /\ At(s, i) <= t
        /\ \A j \in (i + 1)..(Len(s) - 1) : At(s, j) > t

\* C4: on a strictly increasing table linear returns the largest index i with
\* xs[i] <= target when target >= xs[0], and no index of the table ("not
\* found") when target < xs[0].
C4_LinearLargestBelow ==
    (StrictlyIncreasing(xs) /\ out.linear # NotCalled)
        => IF target >= At(xs, 0)
           THEN out.linear = PyInt(LargestBelow(xs, target))
           ELSE ~(IsInt(out.linear) /\ out.linear.v \in 0..(M - 1))

\* C5: for every table, every hint in [0, M-2] and every target, the index
\* hunt returns lies in [0, M-2]; the hint of every search of a chain seeded
\* with the previous result satisfies hunt's precondition.
C5_HuntResultIsValidHint ==
    /\ hint \in 0..(M - 2)
    /\ out.hunt # NotCalled
        => (IsInt(out.hunt) /\ out.hunt.v \in 0..(M - 2))

\* hunt ran from the lowest hint up to the top of an unsorted table, for a
\* target beyond every entry
C5_Witness ==
    /\ ~NonDecreasing(xs)
    /\ M = UnsortedM
    /\ hint = 0
    /\ \A k \in 1..M : xs[k] < target
    /\ out.hunt = PyInt(M - 2)

\* C7: on a strictly increasing table bisection and hunt (from any valid
\* hint) return 0 when target < xs[0] and M-2 when target >= xs[M-1].
C7_OutOfRangeClamps ==
    StrictlyIncreasing(xs) =>
        /\ out.bisection # NotCalled =>
              /\ target < At(xs, 0) => out.bisection = PyInt(0)
              /\ target >= At(xs, M - 1) => out.bisection = PyInt(M - 2)
        /\ out.hunt # NotCalled =>
              /\ target < At(xs, 0) => out.hunt = PyInt(0)
              /\ target >= At(xs, M - 1) => out.hunt = PyInt(M - 2)

\* both strategies clamped a target equal to the last entry, hunt from the
\* far end of the table
C7_Witness ==
    /\ StrictlyIncreasing(xs)
    /\ M = MaxM
    /\ target = At(xs, M - 1)
    /\ hint = 0
    /\ out.bisection = PyInt(M - 2)
    /\ out.hunt = PyInt(M - 2)

(***************************************************************************)
(* Exact rationals <<numerator, denominator>>, denominator > 0, reduced.   *)
(***************************************************************************)
Abs(a) == IF a < 0 THEN -a ELSE a

RECURSIVE GCD(_, _)
GCD(a, b) == IF b = 0 THEN a ELSE GCD(b, a % b)

Rat(n, d) ==
    LET sg == IF d < 0 THEN -1 ELSE 1
        g == GCD(Abs(n), Abs(d))
    IN  <<(sg * n) \div g, (sg * d) \div g>>

RInt(k) == <<k, 1>>
RAdd(a, b) == Rat(a[1] * b[2] + b[1] * a[2], a[2] * b[2])
RSub(a, b) == Rat(a[1] * b[2] - b[1] * a[2], a[2] * b[2])
RMulInt(a, k) == Rat(a[1] * k, a[2])
RDivInt(a, k) == Rat(a[1], a[2] * k)

\* IEEE division of n by zero: +inf, -inf or nan, written <<1,0>>, <<-1,0>>,
\* <<0,0>>; adding a finite number leaves it as it is
RDivZero(n) == <<IF n > 0 THEN 1 ELSE IF n < 0 THEN -1 ELSE 0, 0>>

Value(r) == [tag |-> "value", v |-> r]

\* s[i] with Python's negative indices; i is known to be inside -len..len-1
PyAt(s, i) == IF i < 0 THEN s[Len(s) + i + 1] ELSE s[i + 1]

InPyRange(s, i) == -Len(s) <= i /\ i < Len(s)

SampleValues == 0..MaxY

(***************************************************************************)
(* Interpolator: linear interpolation between the two points the search    *)
(* returns.  i_last is set at construction and by every call whose search  *)
(* returns.                                                                *)
(***************************************************************************)
SortedTables(m) == {s \in [1..m -> PolyAbscissas] : StrictlyIncreasing(s)}

\* __init__: assert len(xs) == len(ys); i_last = len(xs)//2
InitInterp ==
    /\ \E m \in 2..PolyMaxM :
          /\ xs \in SortedTables(m)
          /\ ys \in [1..m -> SampleValues]
    /\ i_last = PyInt(Len(xs) \div 2)
    /\ target = 0
    /\ ret = NotCalled
    /\ hint = 0 /\ out = NoResults
    /\ order = 0 /\ dy = NotCalled /\ pc = "idle"
    /\ C = <<>> /\ D = <<>> /\ ptr = 0 /\ y = NotCalled /\ ord = 0
    /\ path = <<>>

\* hunt(self.xs, target, self.i_last): the assert compares i_last with ints
huntFrom(s, t, c) == IF IsInt(c) THEN hunt(s, t, c.v) ELSE TypeError

searchBy(method, s, t, c) ==
    CASE method = "hunt" -> huntFrom(s, t, c)
      [] method = "bisection" -> PyInt(bisection(s, t))
      [] OTHER -> linear(s, t)

\* (y1 - y0) * (target - x0) / (x1 - x0) + y0 on xs[i], xs[i+1]: the set of
\* outcomes.  With x1 = x0 the division raises ZeroDivisionError when the
\* table holds Python numbers and gives inf or nan when it is a numpy array.
interpolate(s, v, t, i) ==
    IF ~IsInt(i) THEN {TypeError}
    ELSE IF ~(InPyRange(s, i.v) /\ InPyRange(s, i.v + 1)) THEN {IndexError}
    ELSE LET x0 == PyAt(s, i.v)
             x1 == PyAt(s, i.v + 1)
             y0 == PyAt(v, i.v)
             y1 == PyAt(v, i.v + 1)
         IN  IF x1 = x0
             THEN {ZeroDivisionError, Value(RDivZero((y1 - y0) * (t - x0)))}
             ELSE {Value(RAdd(Rat((y1 - y0) * (t - x0), x1 - x0), RInt(y0)))}

InterpCall(method) ==
    \E t \in PolyTargets :
        LET i == searchBy(method, xs, t, i_last)
        IN  /\ target' = t
            /\ IF i.tag \in {"AssertionError", "TypeError"}
               THEN /\ ret' = i
                    /\ UNCHANGED i_last
               ELSE /\ i_last' = i
                    /\ ret' \in interpolate(xs, ys, t, i)
            /\ UNCHANGED <<xs, ys, searchVars, polyVars>>

NextI == \E method \in {"hunt", "bisection", "linear"} : InterpCall(method)

SpecInterp == InitInterp /\ [][NextI]_vars

\* C6: in every reachable state of an Interpolator over a table of length
\* M >= 2 the cursor i_last is an integer in [0, M-2].
C6_CursorInRange == IsInt(i_last) /\ i_last.v \in 0..(Len(xs) - 2)

(***************************************************************************)
(* PolynomialInterpolator: Neville's algorithm on the correction arrays C  *)
(* and D.  One call is PolyBegin, one PolyStep per order n = 1..self.n-1,  *)
(* then PolyReturn; an exception ends the call at the step that raises it. *)
(***************************************************************************)
Coincident == [tag |-> "Exception"]   \* "two input xs are ... identical."
Undefined == [tag |-> "undefined"]    \* an attribute never assigned

\* sorted tables, with at most one pair of coincident abscissas
Coincidences(s) == {j \in 1..(Len(s) - 1) : s[j] = s[j + 1]}
PolyTables(m) ==
    {s \in [1..m -> PolyAbscissas] :
        NonDecreasing(s) /\ Cardinality(Coincidences(s)) <= 1}

\* __init__: n defaults to len(xs); assert len(xs) == len(ys), len(xs) >= n
InitPoly ==
    /\ \E m \in 1..PolyMaxM :
          /\ xs \in PolyTables(m)
          /\ ys \in [1..m -> SampleValues]
          /\ order \in 1..m
    /\ dy = Undefined
    /\ pc = "idle"
    /\ target = 0
    /\ ret = NotCalled
    /\ C = <<>> /\ D = <<>> /\ ptr = 0 /\ y = NotCalled /\ ord = 0
    /\ path = <<>>
    /\ hint = 0 /\ out = NoResults /\ i_last = NotCalled

\* np.argmin(abs(xs - target)): the first index of the smallest distance
nearest(s, t) ==
    CHOOSE i \in 0..(Len(s) - 1) :
        /\ \A j \in 0..(Len(s) - 1) : Abs(At(s, i) - t) <= Abs(At(s, j) - t)
        /\ \A j \in 0..(i - 1) : Abs(At(s, j) - t) > Abs(At(s, i) - t)

\* numpy combines two 1-d arrays when the lengths agree or one of them is 1
Broadcastable(a, b) == a = b \/ a = 1 \/ b = 1

BroadcastAt(a, j) == IF Len(a) = 1 THEN a[1] ELSE a[j]

\* ho = xs[:-n] - target, hp = xs[+n:] - target
hoOf(s, t, k) == [j \in 1..(Len(s) - k) |-> s[j] - t]
hpOf(s, t, k) == [j \in 1..(Len(s) - k) |-> s[j + k] - t]

\* the slices C[1:self.n-n+1] and D[:-n]
CSlice(Cv, k, n) == SubSeq(Cv, 2, Min(n - k + 1, Len(Cv)))
DSlice(Dv, k) == SubSeq(Dv, 1, Len(Dv) - k)

\* any(den == 0)
anyZero(den) == \E j \in 1..Len(den) : den[j] = 0

\* lines 666-675: the C and D arrays after order k, or the exception raised
update(Cv, Dv, s, t, k, n) ==
    LET ho == hoOf(s, t, k)
        hp == hpOf(s, t, k)
        Cs == CSlice(Cv, k, n)
        Ds == DSlice(Dv, k)
        den == [j \in 1..Len(ho) |-> ho[j] - hp[j]]
    IN  IF ~Broadcastable(Len(Cs), Len(Ds)) THEN ValueError
        ELSE IF anyZero(den) THEN Coincident
        ELSE LET w == [j \in 1..Max(Len(Cs), Len(Ds)) |->
                          RSub(BroadcastAt(Cs, j), BroadcastAt(Ds, j))]
                 f == [j \in 1..Len(den) |-> RDivInt(BroadcastAt(w, j), den[j])]
             IN  [tag |-> "ok",
                  C |-> [j \in 1..Len(Cv) |->
                            IF j <= Len(ho) THEN RMulInt(f[j], ho[j]) ELSE Cv[j]],
                  D |-> [j \in 1..Len(Dv) |->
                            IF j <= Len(hp) THEN RMulInt(f[j], hp[j]) ELSE Dv[j]]]

\* self.xs after `self.xs[:-n] - target`, had the subtraction been done in
\* place on the slice
xsAfterHoInPlace(s, t, k) ==
    [j \in 1..Len(s) |-> IF j <= Len(s) - k THEN s[j] - t ELSE s[j]]

\* self.xs after `ho = self.xs[:-n] - target`: the difference is a new array
xsAfterHo(s, t, k) == s

\* the path test without the +1 on the pointer
takesCNoOffset(i, k, n) == 2 * i < n - k

\* 2*(i+1) < (self.n-n)
takesC(i, k, n) == 2 * (i + 1) < n - k

\* the pointer stepped forward after a C correction
nextPtrAdvancing(i, c) == IF c THEN i + 1 ELSE i - 1

\* lines 677-681: only the D branch moves the pointer (i -= 1)
nextPtr(i, c) == IF c THEN i ELSE i - 1

\* what one order did: the pointer p before, the branch taken, the index k
\* read, the correction d added and the pointer q after
PathEntry(n, p, c, k, d, q) ==
    [ord |-> n, p |-> p, c |-> c, k |-> k, d |-> d, q |-> q]

PolyLocalsCleared ==
    /\ C' = <<>> /\ D' = <<>> /\ ptr' = 0 /\ y' = NotCalled /\ ord' = 0

\* lines 658-663
PolyBegin ==
    /\ pc = "idle"
    /\ \E t \in PolyTargets :
          LET i == nearest(xs, t)
          IN  /\ target' = t
              /\ C' = [j \in 1..Len(ys) |-> RInt(ys[j])]
              /\ D' = [j \in 1..Len(ys) |-> RInt(ys[j])]
              /\ y' = Value(RInt(At(ys, i)))
              /\ ptr' = i - 1
    /\ ord' = 1
    /\ pc' = "loop"
    /\ ret' = NotCalled
    /\ path' = <<>>
    /\ UNCHANGED <<xs, ys, order, dy, searchVars, interpVars>>

\* lines 665-683: one pass of the loop body
PolyStep ==
    /\ pc = "loop"
    /\ ord < order
    /\ LET u == update(C, D, xs, target, ord, order)
       IN  IF u.tag # "ok"
           THEN /\ ret' = u
                /\ pc' = "idle"
                /\ PolyLocalsCleared
                /\ UNCHANGED <<dy, path>>
           ELSE LET c == takesC(ptr, ord, order)
                    k == IF c THEN ptr + 1 ELSE ptr
                IN  IF ~InPyRange(u.C, k)
                    THEN /\ ret' = IndexError
                         /\ pc' = "idle"
                         /\ PolyLocalsCleared
                         /\ UNCHANGED <<dy, path>>
                    ELSE LET d == IF c THEN PyAt(u.C, k) ELSE PyAt(u.D, k)
                         IN  /\ dy' = Value(d)
                             /\ y' = Value(RAdd(y.v, d))
                             /\ ptr' = nextPtr(ptr, c)
                             /\ C' = u.C
                             /\ D' = u.D
                             /\ ord' = ord + 1
                             /\ path' = Append(path,
                                   PathEntry(ord, ptr, c, k, d, nextPtr(ptr, c)))
                             /\ UNCHANGED <<pc, ret>>
    /\ xs' = xsAfterHo(xs, target, ord)
    /\ UNCHANGED <<ys, target, order, searchVars, interpVars>>

\* line 685
PolyReturn ==
    /\ pc = "loop"
    /\ ord >= order
    /\ ret' = y
    /\ pc' = "idle"
    /\ PolyLocalsCleared
    /\ UNCHANGED <<xs, ys, target, order, dy, path, searchVars, interpVars>>

NextP == PolyBegin \/ PolyStep \/ PolyReturn

SpecPoly == InitPoly /\ [][NextP]_vars

(***************************************************************************)
(* Properties of the PolynomialInterpolator.                               *)
(***************************************************************************)
Distinct(s) == \A j, k \in 1..Len(s) : j # k => s[j] # s[k]

\* a call has ended, by a return or by an exception
Returned == pc = "idle" /\ ret # NotCalled

\* C8: when xs holds two equal entries, a call at any target and for any
\* order n, 1 <= n <= M, raises the coincident-abscissas failure and returns
\* no value.
C8_CoincidentAlwaysRaised ==
    (~Distinct(xs) /\ Returned) => ret = Coincident

\* C9: on M distinct abscissas and for every order n, 1 <= n <= M, a call
\* returns a value for every target: the arrays combined at each order have
\* matching lengths and no failure is produced.
C9_EvaluateAlwaysReturns ==
    (Distinct(xs) /\ Returned) => ret.tag = "value"

\* C10: for order n = M and M distinct abscissas, a call with target xs[k]
\* returns ys[k], for every k in 0..M-1.
C10_RoundTrip ==
    (order = Len(xs) /\ Distinct(xs) /\ Returned)
        => \A k \in 1..Len(xs) :
              target = xs[k] => ret = Value(RInt(ys[k]))

\* a full-order call on the longest table returned the sample at an interior
\* entry whose neighbours hold another value
C10_Witness ==
    /\ Len(xs) = PolyMaxM /\ order = Len(xs) /\ Distinct(xs)
    /\ Returned
    /\ target = xs[2]
    /\ ys[1] # ys[2] /\ ys[3] # ys[2]
    /\ ret = Value(RInt(ys[2]))

(***************************************************************************)
(* A table of distinct abscissas owned by an Interpolator or by a           *)
(* PolynomialInterpolator, under any sequence of calls of its owner.       *)
(***************************************************************************)
InitCalls == InitInterp \/ (InitPoly /\ Distinct(xs))

NextC ==
    \/ i_last # NotCalled /\ NextI
    \/ order > 0 /\ NextP

SpecCalls == InitCalls /\ [][NextC]_vars

\* C11: no step of an Interpolator or PolynomialInterpolator call, returning
\* or raising, changes the sample table: xs and ys keep the values they had
\* at construction.
C11_TableNeverMutated == [][xs' = xs /\ ys' = ys]_vars

\* a full-order call away from the origin ran every C/D update and returned
C11_Witness ==
    /\ Returned /\ ret.tag = "value"
    /\ order = PolyMaxM
    /\ Len(path) = order - 1
    /\ target = -1

(***************************************************************************)
(* Construction from arbitrary arguments: arrays in any order and of any   *)
(* two lengths, any order n, and a direct hunt from any hint.  pc is "new" *)
(* until a constructor or hunt has run, "failed" when the constructor      *)
(* raised, "searched" after the direct hunt.                               *)
(***************************************************************************)
AnyArrays == UNION {[1..m -> PolyAbscissas] : m \in 1..BuildM}
ZeroSamples == {[j \in 1..m |-> 0] : m \in 1..BuildM}

InitBuild ==
    /\ xs \in AnyArrays
    /\ ys \in ZeroSamples
    /\ pc = "new"
    /\ target = 0
    /\ ret = NotCalled
    /\ i_last = NotCalled
    /\ order = 0 /\ dy = Undefined
    /\ C = <<>> /\ D = <<>> /\ ptr = 0 /\ y = NotCalled /\ ord = 0
    /\ path = <<>>
    /\ hint = 0 /\ out = NoResults

\* Interpolator.__init__
BuildInterp ==
    /\ pc = "new"
    /\ IF Len(xs) = Len(ys)
       THEN /\ i_last' = PyInt(Len(xs) \div 2)
            /\ pc' = "idle"
            /\ UNCHANGED ret
       ELSE /\ ret' = AssertionError
            /\ pc' = "failed"
            /\ UNCHANGED i_last
    /\ UNCHANGED <<xs, ys, target, searchVars, order, dy, C, D, ptr, y, ord, path>>

\* PolynomialInterpolator.__init__ with argument n (None stands for len(xs));
\* order keeps the n asked for also when the constructor raises
BuildPoly ==
    /\ pc = "new"
    /\ \E n \in 1..(BuildM + 1) :
          /\ order' = n
          /\ IF Len(xs) = Len(ys) /\ Len(xs) >= n
             THEN /\ pc' = "idle"
                  /\ UNCHANGED ret
             ELSE /\ ret' = AssertionError
                  /\ pc' = "failed"
    /\ UNCHANGED <<xs, ys, target, searchVars, interpVars, dy, C, D, ptr, y, ord, path>>

\* hunt(xs, target, i_last) called directly
HuntWithHint ==
    /\ pc = "new"
    /\ \E h \in -1..BuildM, t \in PolyTargets :
          /\ hint' = h
          /\ target' = t
          /\ out' = [out EXCEPT !.hunt = hunt(xs, t, h)]
    /\ pc' = "searched"
    /\ UNCHANGED <<xs, ys, i_last, ret, order, dy, C, D, ptr, y, ord, path>>

NextB ==
    \/ BuildInterp
    \/ BuildPoly
    \/ HuntWithHint
    \/ pc = "idle" /\ i_last # NotCalled /\ NextI
    \/ pc \in {"idle", "loop"} /\ order > 0 /\ NextP

SpecBuild == InitBuild /\ [][NextB]_vars

\* neither non-decreasing nor non-increasing
NonMonotonic(s) ==
    /\ \E k \in 1..(Len(s) - 1) : s[k] > s[k + 1]
    /\ \E k \in 1..(Len(s) - 1) : s[k] < s[k + 1]

\* C12: each precondition violation fails before any result reaches the
\* caller: xs and ys of different lengths and an order n above the table size
\* make the constructor raise, a hint outside [0, M-2] makes hunt raise, and
\* over a non-monotonic table no call returns a result.
C12_ViolationsFailFast ==
    /\ (pc \notin {"new", "searched"} /\ Len(xs) # Len(ys)) => pc = "failed"
    /\ order > Len(xs) => pc = "failed"
    /\ (pc = "searched" /\ hint \notin 0..(Len(xs) - 2))
          => out.hunt = AssertionError
    /\ NonMonotonic(xs) => (ret.tag # "value" /\ ~IsInt(out.hunt))

(***************************************************************************)
(* Properties of the path of corrections of one PolynomialInterpolator     *)
(* call.                                                                   *)
(***************************************************************************)
\* y0 plus the corrections of the first k entries of a path
RECURSIVE SumOfCorrections(_, _, _)
SumOfCorrections(y0, p, k) ==
    IF k = 0 THEN y0 ELSE RAdd(SumOfCorrections(y0, p, k - 1), p[k].d)

\* C13: after every call that returns a value, for every order n,
\* 1 <= n <= M, dy is defined and is the last correction that call added, and
\* the value returned is ys[nearest] plus the corrections of orders 1..n-1.
C13_DyFreshEachCall ==
    (Returned /\ ret.tag = "value") =>
        /\ dy # Undefined
        /\ Len(path) = order - 1
        /\ Len(path) > 0 => dy = Value(path[Len(path)].d)
        /\ ret.v = SumOfCorrections(RInt(At(ys, nearest(xs, target))),
                                    path, Len(path))

\* the correction of the entry just added is the array entry it names
LastReadMatches ==
    (pc = "loop" /\ Len(path) > 0) =>
        LET e == path[Len(path)]
        IN  /\ e.d = IF e.c THEN PyAt(C, e.k) ELSE PyAt(D, e.k)
            /\ ptr = e.q

\* C14: at each order, with pointer p and remaining width n - ord: if
\* 2*(p+1) < n - ord the correction is C[p+1] and the pointer is advanced
\* forward; otherwise the correction is D[p] and the pointer moves back by one.
C14_BranchAdvancesPointer ==
    /\ LastReadMatches
    /\ \A j \in 1..Len(path) :
          LET e == path[j]
          IN  IF 2 * (e.p + 1) < order - e.ord
              THEN e.c /\ e.k = e.p + 1 /\ e.q > e.p
              ELSE ~e.c /\ e.k = e.p /\ e.q = e.p - 1

\* C14 as amended: if 2*(p+1) < n - ord the correction is C[p+1] and the
\* pointer stays where it is; otherwise the correction is D[p] and the
\* pointer moves back by one.
C14_BranchKeepsPointer ==
    /\ LastReadMatches
    /\ \A j \in 1..Len(path) :
          LET e == path[j]
          IN  IF 2 * (e.p + 1) < order - e.ord
              THEN e.c /\ e.k = e.p + 1 /\ e.q = e.p
              ELSE ~e.c /\ e.k = e.p /\ e.q = e.p - 1

\* a returned call of the highest order took a D correction and then a C
\* correction
C14_Witness ==
    /\ Returned /\ ret.tag = "value"
    /\ order = PolyMaxM
    /\ Len(path) = order - 1
    /\ ~path[1].c
    /\ path[Len(path)].c

\* C15: in a full-order call (n = M) the pointer p at order ord satisfies
\* -1 <= p <= M-ord-1, a C read uses index p+1 and a D read index p, both in
\* [0, M-ord-1], the entries updated at that order.
C15_PathStaysInWindow ==
    order = Len(xs) =>
        /\ (pc = "loop" /\ ord < order) => (-1 <= ptr /\ ptr <= Len(xs) - ord - 1)
        /\ \A j \in 1..Len(path) :
              LET e == path[j]
              IN  /\ -1 <= e.p /\ e.p <= Len(xs) - e.ord - 1
                  /\ e.k = IF e.c THEN e.p + 1 ELSE e.p
                  /\ e.k \in 0..(Len(xs) - e.ord - 1)

\* a full-order call on the longest table started at the last entry: its
\* first read is the last entry of the window
C15_Witness ==
    /\ order = Len(xs) /\ Len(xs) = PolyMaxM
    /\ Returned /\ ret.tag = "value"
    /\ Len(path) = order - 1
    /\ ~path[1].c /\ path[1].k = Len(xs) - 2

====
